---- MODULE Spec2Model ----
(***************************************************************************)
(* Copy-trading engine of copytradepoly: the polling loop of               *)
(* CopytradeService.start, the buy and sell decisions, the position        *)
(* reconciliation cache and the SQLite ledger of TradeRepository.          *)
(*                                                                         *)
(* Units.  Money is counted in quarters of a dollar (0.25 USD), shares in  *)
(* whole shares and prices in quarters per share.  The trades and          *)
(* configurations below are chosen so that every division the code makes   *)
(* is exact: budgets, caps and copied notionals are even, buys are priced  *)
(* at 1 or 2 quarters, sells at 2 quarters, sizes are multiples of 4.      *)
(***************************************************************************)
EXTENDS Integers, Sequences, FiniteSets, TLC

\* ---------------------------------------------------------------- bounds
MaxPolls == 2
MaxFetch == 2
\* Rows the ledger holds when it is looked at by itself.
MaxRows == 3
\* Rows a second session writes into the shared ledger.
MaxOtherRows == 1
\* Rows of a list whose realized P&L is computed by itself.
MaxPnLRows == 4

\* ------------------------------------------------------ program constants
\* MIN_ORDER_SIZE_USD = 1.0 dollar, i.e. 4 quarters.
MIN_ORDER_SIZE_USD == 4
\* lastProcessedTimestamp = now at start(); trade timestamps are relative to it.
StartTime == 0

Assets == {"X", "Y"}
TxIds == {"tx1", "tx2", "tx3", "tx4"}

\* The target account's trades (PolymarketTrade), one per transactionHash:
\* a 50 USD buy of X at 0.25, a small and a large sell of X at 0.50, and a
\* 4 USD buy of Y at 0.50.  tx2 and tx4 share a timestamp.
Pool ==
  { [transactionHash |-> "tx1", side |-> "BUY",  asset |-> "X", size |-> 200, price |-> 1, timestamp |-> 1],
    [transactionHash |-> "tx2", side |-> "SELL", asset |-> "X", size |-> 4,   price |-> 2, timestamp |-> 2],
    [transactionHash |-> "tx3", side |-> "SELL", asset |-> "X", size |-> 100, price |-> 2, timestamp |-> 3],
    [transactionHash |-> "tx4", side |-> "BUY",  asset |-> "Y", size |-> 8,   price |-> 2, timestamp |-> 2] }

\* What the CLI passes to start(): the config (remainingBudget = budget > 0,
\* 0 < copyPercentage <= 100, maxTradeSize > 0) and the flags --dry-run,
\* --allow-add-to-position and --no-reinvest.
\*   budget 400 = 100 USD, cap 80 = 20 USD, 100 percent   (Scenario A)
\*   budget   6 = 1.50 USD, cap 4 = 1 USD, 100 percent    (0.50 USD left after one buy)
\*   budget  10 = 2.50 USD, cap 80 = 20 USD, 50 percent
Session(budget, copyPercentage, maxTradeSize, reinvest, dryRun, allowAddToPosition) ==
  [ id |-> 1, budget |-> budget, copyPercentage |-> copyPercentage,
    maxTradeSize |-> maxTradeSize, reinvest |-> reinvest, dryRun |-> dryRun,
    allowAddToPosition |-> allowAddToPosition ]

Sessions ==
  { Session(400, 100, 80, TRUE,  FALSE, FALSE),
    Session(400, 100, 80, FALSE, TRUE,  FALSE),
    Session(6,   100, 4,  TRUE,  FALSE, TRUE),
    Session(6,   100, 4,  FALSE, FALSE, FALSE),
    Session(10,  50,  80, TRUE,  FALSE, TRUE),
    Session(10,  50,  80, TRUE,  TRUE,  TRUE) }

\* Every list the feed adapter can return in one fetch (empty on failure).
FeedSeqs == UNION { [1..n -> Pool] : n \in 0..MaxFetch }

VARIABLES
  session,                \* config and flags given to start(), fixed
  configs,                \* copytrade_configs rows; the row id is the index
  log,                    \* executed_trades rows, in insertion order
  remainingBudget,        \* savedConfig.remainingBudget (in memory)
  isRunning,
  lastProcessedTimestamp,
  pollCount,
  positionCache,          \* Map asset -> shares
  pc,                     \* where start() is
  newTrades,              \* the batch of the current poll
  idx,                    \* position of the for loop in newTrades
  pending,                \* the order or position query being awaited
  held,                   \* shares the account really holds, per asset
  lagged,                 \* holdings before the latest fill, per asset
  summaries,              \* number of exit summaries printed
  orders,                 \* placeMarketOrder calls per transactionHash
  applied,                \* transactionHashes whose outcome was saved
  lastBuy,                \* the latest buy decision and its result
  lastSell,               \* the latest sell decision
  recon,                  \* latest reconciled shares per asset, this poll
  insertFails,            \* the database refuses INSERTs into executed_trades
  ledgerThrew,            \* saveTradeRecord has rethrown a ledger error
  shown                   \* the exit summary printed last

vars == << session, configs, log, remainingBudget, isRunning,
           lastProcessedTimestamp, pollCount, positionCache, pc, newTrades,
           idx, pending, held, lagged, summaries, orders, applied, lastBuy,
           lastSell, recon, insertFails, ledgerThrew, shown >>

Min(a, b) == IF a < b THEN a ELSE b
Max(a, b) == IF a > b THEN a ELSE b

EmptyMap == [a \in {} |-> 0]
NoOrder == [kind |-> "none"]
NoDecision == [kind |-> "none"]
NoSummary == [kind |-> "none"]

\* ------------------------------------------------------------ the ledger
\* TradeRepository.isTradeProcessed: any row with this original_trade_id,
\* whatever its config_id.
isTradeProcessed(rows, originalTradeId) ==
  \E i \in 1..Len(rows) : rows[i].originalTradeId = originalTradeId

\* Faulty variant: the original_trade_id column without its UNIQUE constraint.
saveTrade_NoUnique(rows, trade) ==
  [threw |-> "none", rows |-> Append(rows, trade)]

\* Faulty variant: INSERT OR REPLACE, a second row with the same id takes
\* the place of the first.
saveTrade_Replace(rows, trade) ==
  [threw |-> "none",
   rows |-> IF isTradeProcessed(rows, trade.originalTradeId)
            THEN [i \in 1..Len(rows) |->
                    IF rows[i].originalTradeId = trade.originalTradeId
                    THEN trade ELSE rows[i]]
            ELSE Append(rows, trade)]

\* TradeRepository.saveTrade: INSERT into executed_trades, whose
\* original_trade_id column is UNIQUE: a second row with the same id throws.
\* stmt.run throws any other database error as it is.
saveTrade(rows, trade) ==
  IF insertFails
  THEN [threw |-> "disk I/O error", rows |-> rows]
  ELSE IF isTradeProcessed(rows, trade.originalTradeId)
  THEN [threw |-> "UNIQUE constraint", rows |-> rows]
  ELSE [threw |-> "none", rows |-> Append(rows, trade)]

\* CopytradeService.saveTradeRecord: duplicate-key errors are swallowed,
\* the rows are those after the attempt.
saveTradeRecord(rows, trade) == saveTrade(rows, trade).rows

\* CopytradeService.saveTradeRecord: every other error is thrown again.
saveTradeRecordThrows(rows, trade) ==
  saveTrade(rows, trade).threw \notin {"none", "UNIQUE constraint"}

RECURSIVE SumShares_AnyStatus(_, _, _, _)
\* Faulty variant: the status of the rows is not looked at.
SumShares_AnyStatus(rows, configId, assetId, side) ==
  IF rows = << >> THEN 0
  ELSE LET r == Head(rows)
           rest == SumShares_AnyStatus(Tail(rows), configId, assetId, side)
       IN IF r.configId = configId /\ r.assetId = assetId /\ r.side = side
          THEN r.executedSize + rest
          ELSE rest

RECURSIVE SumShares(_, _, _, _)
\* SUM(executed_size) over the SUCCESS rows of one config, asset and side.
SumShares(rows, configId, assetId, side) ==
  IF rows = << >> THEN 0
  ELSE LET r == Head(rows)
           rest == SumShares(Tail(rows), configId, assetId, side)
       IN IF r.configId = configId /\ r.assetId = assetId
             /\ r.status = "SUCCESS" /\ r.side = side
          THEN r.executedSize + rest
          ELSE rest

\* TradeRepository.getSessionPosition(...).shares
getSessionPosition(rows, configId, assetId) ==
  SumShares(rows, configId, assetId, "BUY")
    - SumShares(rows, configId, assetId, "SELL")

\* Faulty variant: the session is never taken to hold the asset.
hasSessionPosition_Never(rows, configId, assetId) == FALSE

\* TradeRepository.hasSessionPosition
hasSessionPosition(rows, configId, assetId) ==
  getSessionPosition(rows, configId, assetId) > 0

\* The ExecutedTrade object built by processBuyTrade / processSellTrade.
ExecutedTrade(trade, executedSize, status, orderId, errorMessage) ==
  [ configId |-> session.id,
    originalTradeId |-> trade.transactionHash,
    assetId |-> trade.asset,
    side |-> trade.side,
    originalSize |-> trade.size,
    executedSize |-> executedSize,
    price |-> trade.price,
    status |-> status,
    orderId |-> orderId,
    errorMessage |-> errorMessage ]

\* CopytradeService.markTradeSkipped
markTradeSkipped(rows, trade, reason) ==
  saveTradeRecord(rows, ExecutedTrade(trade, 0, "SKIPPED", "none", reason))

\* ----------------------------------------------------- the buy decision
\* tradeAmount = (originalSize * price * copyPercentage) / 100
copyAmount(trade, copyPercentage) ==
  (trade.size * trade.price * copyPercentage) \div 100

\* Faulty variant: the per-trade cap is not applied.
applyMaxTradeSize_NoCap(tradeAmount, maxTradeSize) == tradeAmount

\* tradeAmount = Math.min(tradeAmount, config.maxTradeSize)
applyMaxTradeSize(tradeAmount, maxTradeSize) == Min(tradeAmount, maxTradeSize)

\* Faulty variant: the amount is not cut down to the remaining budget.
applyRemainingBudget_NoClamp(tradeAmount, budgetLeft) == tradeAmount

\* if (tradeAmount > config.remainingBudget) ... tradeAmount = remainingBudget
applyRemainingBudget(tradeAmount, budgetLeft) ==
  IF tradeAmount > budgetLeft THEN budgetLeft ELSE tradeAmount

\* Faulty variant: the venue minimum is not checked.
belowMinimum_Never(tradeAmount) == FALSE

\* if (tradeAmount < MIN_ORDER_SIZE_USD)
belowMinimum(tradeAmount) == tradeAmount < MIN_ORDER_SIZE_USD

\* processBuyTrade up to the order: which skip applies, or the amount to buy.
decideBuy(trade, rows, budgetLeft) ==
  LET capped == applyMaxTradeSize(copyAmount(trade, session.copyPercentage),
                                  session.maxTradeSize)
      tradeAmount == applyRemainingBudget(capped, budgetLeft)
  IN  IF ~session.allowAddToPosition
         /\ hasSessionPosition(rows, session.id, trade.asset)
      THEN [status |-> "skipped", skipReason |-> "already hold position",
            errorMessage |-> "Already hold position", amount |-> 0]
      ELSE IF capped > budgetLeft /\ budgetLeft <= 0
      THEN [status |-> "skipped", skipReason |-> "no budget",
            errorMessage |-> "No budget", amount |-> 0]
      ELSE IF tradeAmount <= 0
      THEN [status |-> "skipped", skipReason |-> "amount too small",
            errorMessage |-> "Trade amount too small", amount |-> tradeAmount]
      ELSE IF belowMinimum(tradeAmount)
      THEN [status |-> "skipped", skipReason |-> "below $1 minimum",
            errorMessage |-> "Below $1 minimum", amount |-> tradeAmount]
      ELSE [status |-> "accepted", skipReason |-> "none",
            errorMessage |-> "none", amount |-> tradeAmount]

\* Faulty variant: the remote read is used as it is, the cache ignored.
reconcile_ApiOnly(apiShares, cache, asset) == apiShares

\* Faulty variant: a cached value is used as it is, the remote read ignored.
reconcile_CacheOnly(apiShares, cache, asset) ==
  IF asset \in DOMAIN cache THEN cache[asset] ELSE apiShares

\* ---------------------------------------------------- the sell decision
\* actualShares = cached !== undefined ? Math.min(api, cached) : api
reconcile(apiShares, cache, asset) ==
  IF asset \in DOMAIN cache THEN Min(apiShares, cache[asset]) ELSE apiShares

\* ourSellValue, capped at the value of the shares held
sellValue(trade, copyPercentage, actualShares) ==
  LET theirSellValue == trade.size * trade.price
      ourSellValue == (theirSellValue * copyPercentage) \div 100
      actualPositionValue == actualShares * trade.price
  IN  IF ourSellValue > actualPositionValue THEN actualPositionValue
      ELSE ourSellValue

\* Faulty variant: the proportional size, not clamped to the shares held.
sharesToSellFor_Unclamped(trade, copyPercentage, actualShares) ==
  ((trade.size * trade.price * copyPercentage) \div 100) \div trade.price

\* sharesToSell = ourSellValue / price, clamped to actualShares
sharesToSellFor(trade, copyPercentage, actualShares) ==
  LET shares == sellValue(trade, copyPercentage, actualShares) \div trade.price
  IN  IF shares > actualShares THEN actualShares ELSE shares

\* Faulty variant: the dry-run flag is not looked at.
dryRunEnabled_Never(config) == FALSE

\* if (dryRun)
dryRunEnabled(config) == config.dryRun

\* Faulty variant: the proceeds are credited whatever the reinvest flag says.
reinvestEnabled_Always(config) == TRUE

\* if (config.reinvest)
reinvestEnabled(config) == config.reinvest

\* Faulty variant: the cache keeps the reconciled shares after the sell.
cacheAfterSell_Stale(actualShares, sharesToSell) == actualShares

\* positionCache.set(asset, Math.max(0, actualShares - sharesToSell))
cacheAfterSell(actualShares, sharesToSell) == Max(0, actualShares - sharesToSell)

RECURSIVE filterNew_WatermarkOnly(_, _, _)
\* Faulty variant: the filter looks at the watermark only, not at the ledger.
filterNew_WatermarkOnly(trades, watermark, rows) ==
  IF trades = << >> THEN << >>
  ELSE LET t == Head(trades)
           rest == filterNew_WatermarkOnly(Tail(trades), watermark, rows)
       IN IF t.timestamp > watermark THEN << t >> \o rest ELSE rest

\* trades.filter(timestamp > lastProcessedTimestamp && !isTradeProcessed)
RECURSIVE filterNew(_, _, _)
filterNew(trades, watermark, rows) ==
  IF trades = << >> THEN << >>
  ELSE LET t == Head(trades)
           rest == filterNew(Tail(trades), watermark, rows)
       IN IF t.timestamp > watermark /\ ~isTradeProcessed(rows, t.transactionHash)
          THEN << t >> \o rest
          ELSE rest

\* Faulty variant: the timestamp of the first trade of the batch.
latestTimestamp_First(trades) == trades[1].timestamp

\* newTrades.reduce((latest, t) => t.timestamp > latest.timestamp ? t : latest)
RECURSIVE latestTimestamp(_)
latestTimestamp(trades) ==
  IF Len(trades) = 1 THEN trades[1].timestamp
  ELSE Max(trades[1].timestamp, latestTimestamp(Tail(trades)))

\* ------------------------------------------------------------ the venue
\* What the execution adapter answers to placeMarketOrder: an order id, no
\* order id, or an exception (insufficient balance/allowance, or another).
OrderResults == {"success", "rejected", "not enough balance", "network error"}

\* getPositionSize(asset): the remote balance, which may still be the one
\* from before the latest fill.
PositionReads(asset) == {held[asset], lagged[asset]}

\* The points where start() is suspended on an await and the event loop can
\* run a signal handler or another caller.
AwaitPoints == {"fetching", "awaitPosition", "awaitBuyOrder", "awaitSellOrder",
                "sleeping"}

\* Faulty variant: the budget is debited whatever the order call gave.
buyDebited_Always(result) == TRUE

\* if (result.success && result.orderId): the branch that calls updateBudget.
buyDebited(result) == result = "success"

\* TradeRepository.updateBudget
updateBudget(rows, configId, newBudget) ==
  [rows EXCEPT ![configId].remainingBudget = newBudget]

\* TradeRepository.deactivateConfig
deactivateConfig(rows, configId) ==
  [rows EXCEPT ![configId].isActive = FALSE]

\* ------------------------------------------------------ the exit summary
\* showExitSummary reads getTradesByConfig(configId, 100).
SummaryLimit == 100

RECURSIVE Reversed(_)
Reversed(rows) ==
  IF rows = << >> THEN << >> ELSE Append(Reversed(Tail(rows)), Head(rows))

\* TradeRepository.getTradesByConfig: the rows of one config, newest first,
\* at most limit of them.
getTradesByConfig(rows, configId, limit) ==
  LET mine == Reversed(SelectSeq(rows, LAMBDA r : r.configId = configId))
  IN  IF Len(mine) <= limit THEN mine ELSE SubSeq(mine, 1, limit)

\* The amounts are JavaScript numbers (IEEE doubles): every sum, difference
\* and product is rounded to the nearest number with a 53-bit significand,
\* ties to even.  The model keeps that rounding with a significand of
\* SignificandBits bits, so whole numbers below 2^SignificandBits are exact.
SignificandBits == 9

RECURSIVE Ulp(_)
\* The spacing of the representable numbers around a >= 0.
Ulp(a) == IF a < 2^SignificandBits THEN 1 ELSE 2 * Ulp(a \div 2)

\* The representable number nearest to a >= 0, ties to the even significand.
flAbs(a) ==
  LET u == Ulp(a)
      q == a \div u
      r == a % u
  IN  IF 2 * r > u \/ (2 * r = u /\ q % 2 = 1) THEN (q + 1) * u ELSE q * u

\* The representable number nearest to x.
fl(x) == IF x < 0 THEN -flAbs(-x) ELSE flAbs(x)

\* reduce((sum, t) => sum + t.executedSize, 0)
SumSize(trades) ==
  LET sum[i \in 0..Len(trades)] ==
        IF i = 0 THEN 0 ELSE fl(sum[i - 1] + trades[i].executedSize)
  IN  sum[Len(trades)]

\* reduce((sum, t) => sum + (t.executedSize * t.price), 0)
SumValue(trades) ==
  LET sum[i \in 0..Len(trades)] ==
        IF i = 0 THEN 0
        ELSE fl(sum[i - 1] + fl(trades[i].executedSize * trades[i].price))
  IN  sum[Len(trades)]

\* Faulty variant: the cost basis is the price of the first buy, not the
\* average weighted by shares.
avgBuyPrice_FirstBuy(buys) ==
  IF Len(buys) > 0 THEN buys[1].price ELSE 0

\* avgBuyPrice = totalBuyShares > 0 ? totalBuyCost / totalBuyShares : 0
\* (the rows of the model make the quotient a whole number)
avgBuyPrice(buys) ==
  IF SumSize(buys) > 0 THEN SumValue(buys) \div SumSize(buys) ELSE 0

\* pnl = sellProceeds - costBasis of one sell
sellPnL(sell, avg) ==
  fl(fl(sell.executedSize * sell.price) - fl(sell.executedSize * avg))

\* for (const sell of group.sells): totalPnL += pnl
SumSellPnL(totalPnL, sells, avg) ==
  LET total[i \in 0..Len(sells)] ==
        IF i = 0 THEN totalPnL ELSE fl(sellPnL(sells[i], avg) + total[i - 1])
  IN  total[Len(sells)]

\* One group of byAsset: skipped when the asset has no sell.
groupPnL(totalPnL, trades, assetId) ==
  LET buys == SelectSeq(trades, LAMBDA t : t.assetId = assetId /\ t.side = "BUY")
      sells == SelectSeq(trades, LAMBDA t : t.assetId = assetId /\ t.side # "BUY")
  IN  IF Len(sells) = 0 THEN totalPnL
      ELSE SumSellPnL(totalPnL, sells, avgBuyPrice(buys))

\* The keys of the Map byAsset, in insertion order: the assets in the order
\* of their first trade in the list.
byAssetKeys(trades) ==
  LET firsts == SelectSeq([i \in 1..Len(trades) |-> i],
                          LAMBDA i : \A j \in 1..(i - 1) :
                                       trades[j].assetId # trades[i].assetId)
  IN  [k \in 1..Len(firsts) |-> trades[firsts[k]].assetId]

RECURSIVE SumGroups(_, _, _)
\* for (const [, group] of byAsset)
SumGroups(totalPnL, trades, assetIds) ==
  IF assetIds = << >> THEN totalPnL
  ELSE SumGroups(groupPnL(totalPnL, trades, Head(assetIds)), trades,
                 Tail(assetIds))

\* CopytradeService.calculateRealizedPnL
calculateRealizedPnL(trades) ==
  SumGroups(0, trades, byAssetKeys(trades))

\* CopytradeService.showExitSummary: the figures it prints.
showExitSummary(rows, configRows, configId) ==
  LET trades == getTradesByConfig(rows, configId, SummaryLimit)
      successful == SelectSeq(trades, LAMBDA t : t.status = "SUCCESS")
      failed == SelectSeq(trades, LAMBDA t : t.status = "FAILED")
      buys == SelectSeq(successful, LAMBDA t : t.side = "BUY")
      sells == SelectSeq(successful, LAMBDA t : t.side = "SELL")
  IN  [ kind |-> "summary",
        successful |-> successful,
        buys |-> Len(buys),
        sells |-> Len(sells),
        failed |-> Len(failed),
        totalBought |-> SumValue(buys),
        totalSold |-> SumValue(sells),
        netDeployed |-> fl(SumValue(buys) - SumValue(sells)),
        realizedPnL |-> calculateRealizedPnL(successful),
        remainingBudget |-> IF configId \in 1..Len(configRows)
                            THEN configRows[configId].remainingBudget ELSE 0 ]

\* ------------------------------------------------------------------ Init
Init ==
  /\ session \in Sessions
  /\ configs = << >>
  /\ log = << >>
  /\ remainingBudget = session.budget
  /\ isRunning = FALSE
  /\ lastProcessedTimestamp = StartTime
  /\ pollCount = 0
  /\ positionCache = EmptyMap
  /\ pc = "created"
  /\ newTrades = << >>
  /\ idx = 1
  /\ pending = NoOrder
  /\ held = [a \in Assets |-> 0]
  /\ lagged = [a \in Assets |-> 0]
  /\ summaries = 0
  /\ orders = [h \in TxIds |-> 0]
  /\ applied = {}
  /\ lastBuy = NoDecision
  /\ lastSell = NoDecision
  /\ recon = EmptyMap
  /\ insertFails = FALSE
  /\ ledgerThrew = FALSE
  /\ shown = NoSummary

\* --------------------------------------------------------------- start()
\* start() up to the loop: saveConfig, isRunning = true, the watermark.
Start ==
  /\ pc = "created"
  /\ configs' = Append(configs, [remainingBudget |-> session.budget,
                                 budget |-> session.budget,
                                 isActive |-> TRUE])
  /\ isRunning' = TRUE
  /\ lastProcessedTimestamp' = StartTime
  /\ pc' = "loop"
  /\ UNCHANGED << insertFails, ledgerThrew, shown >>
  /\ UNCHANGED << session, log, remainingBudget, pollCount, positionCache,
                  newTrades, idx, pending, held, lagged, summaries, orders,
                  applied, lastBuy, lastSell, recon >>

\* Faulty variant: a new poll fetches without clearing the cache.
PollBegin_KeepCache ==
  /\ pc = "loop"
  /\ isRunning
  /\ pollCount < MaxPolls
  /\ pollCount' = pollCount + 1
  /\ recon' = EmptyMap
  /\ pc' = "fetching"
  /\ UNCHANGED << insertFails, ledgerThrew, shown, positionCache >>
  /\ UNCHANGED << session, configs, log, remainingBudget, isRunning,
                  lastProcessedTimestamp, newTrades, idx, pending, held,
                  lagged, summaries, orders, applied, lastBuy, lastSell >>

\* while (this.isRunning): a new poll clears the cache and fetches.
PollBegin ==
  /\ pc = "loop"
  /\ isRunning
  /\ pollCount < MaxPolls
  /\ pollCount' = pollCount + 1
  /\ positionCache' = EmptyMap
  /\ recon' = EmptyMap
  /\ pc' = "fetching"
  /\ UNCHANGED << insertFails, ledgerThrew, shown >>
  /\ UNCHANGED << session, configs, log, remainingBudget, isRunning,
                  lastProcessedTimestamp, newTrades, idx, pending, held,
                  lagged, summaries, orders, applied, lastBuy, lastSell >>

\* The loop ends and start() returns without the summary.
ExitLoop_NoSummary ==
  /\ pc = "loop"
  /\ ~isRunning
  /\ pc' = "returned"
  /\ UNCHANGED << insertFails, ledgerThrew, shown, summaries >>
  /\ UNCHANGED << session, configs, log, remainingBudget, isRunning,
                  lastProcessedTimestamp, pollCount, positionCache, newTrades,
                  idx, pending, held, lagged, orders, applied, lastBuy,
                  lastSell, recon >>

\* The loop ends: showExitSummary, start() returns.
ExitLoop ==
  /\ pc = "loop"
  /\ ~isRunning
  /\ summaries' = summaries + 1
  /\ shown' = showExitSummary(log, configs, session.id)
  /\ pc' = "returned"
  /\ UNCHANGED << insertFails, ledgerThrew >>
  /\ UNCHANGED << session, configs, log, remainingBudget, isRunning,
                  lastProcessedTimestamp, pollCount, positionCache, newTrades,
                  idx, pending, held, lagged, orders, applied, lastBuy,
                  lastSell, recon >>

\* Faulty variant: a fetch that gives no new trade moves the watermark on.
FetchReturn_EmptyAdvances ==
  /\ pc = "fetching"
  /\ \E trades \in FeedSeqs :
       LET batch == filterNew(trades, lastProcessedTimestamp, log)
       IN  /\ newTrades' = batch
           /\ idx' = 1
           /\ pc' = IF Len(batch) > 0 THEN "trade" ELSE "sleeping"
           /\ lastProcessedTimestamp' =
                IF Len(batch) > 0 THEN lastProcessedTimestamp
                ELSE lastProcessedTimestamp + 1
  /\ UNCHANGED << insertFails, ledgerThrew, shown >>
  /\ UNCHANGED << session, configs, log, remainingBudget, isRunning,
                  pollCount, positionCache, pending,
                  held, lagged, summaries, orders, applied, lastBuy, lastSell,
                  recon >>

\* getTradesForAddress returns; the new trades are filtered out of it.
FetchReturn ==
  /\ pc = "fetching"
  /\ \E trades \in FeedSeqs :
       LET batch == filterNew(trades, lastProcessedTimestamp, log)
       IN  /\ newTrades' = batch
           /\ idx' = 1
           /\ pc' = IF Len(batch) > 0 THEN "trade" ELSE "sleeping"
  /\ UNCHANGED << insertFails, ledgerThrew, shown >>
  /\ UNCHANGED << session, configs, log, remainingBudget, isRunning,
                  lastProcessedTimestamp, pollCount, positionCache, pending,
                  held, lagged, summaries, orders, applied, lastBuy, lastSell,
                  recon >>

\* ------------------------------------------------------------ the batch
\* for (const trade of newTrades): the budget is re-read from the ledger
\* before each trade.
CurrentTrade == newTrades[idx]
FreshBudget == configs[session.id].remainingBudget

\* What follows a saveTradeRecord in processBuyTrade / processSellTrade:
\* the handler returns and the for loop takes the next trade, or the ledger
\* error thrown again leaves the batch for the catch of the poll (lines
\* 132-134), which skips the rest of the batch and the watermark update.
AfterSave(threw, transactionHash) ==
  /\ ledgerThrew' = (ledgerThrew \/ threw)
  /\ applied' = IF threw THEN applied ELSE applied \cup {transactionHash}
  /\ pending' = NoOrder
  /\ IF threw
     THEN /\ newTrades' = << >>
          /\ idx' = 1
          /\ pc' = "sleeping"
     ELSE /\ newTrades' = newTrades
          /\ idx' = idx + 1
          /\ pc' = "trade"

\* processBuyTrade up to the await of placeMarketOrder (or to its return,
\* for a skip and for a dry run).
ProcessBuy ==
  /\ pc = "trade"
  /\ idx <= Len(newTrades)
  /\ CurrentTrade.side = "BUY"
  /\ LET trade == CurrentTrade
         d == decideBuy(trade, log, FreshBudget)
         estimatedShares == d.amount \div trade.price
         record == IF d.status = "skipped"
                   THEN ExecutedTrade(trade, 0, "SKIPPED", "none", d.errorMessage)
                   ELSE ExecutedTrade(trade, estimatedShares, "SUCCESS",
                                      "dry-run", "none")
     IN  /\ remainingBudget' = FreshBudget
         /\ lastBuy' = [kind |-> "buy", trade |-> trade, before |-> FreshBudget,
                        status |-> d.status, skipReason |-> d.skipReason,
                        amount |-> d.amount,
                        result |-> IF d.status = "accepted" /\ dryRunEnabled(session)
                                   THEN "dry-run" ELSE "none",
                        after |-> FreshBudget,
                        sessionShares |->
                           getSessionPosition(log, session.id, trade.asset),
                        positionCheck |-> (~session.allowAddToPosition /\
                           hasSessionPosition(log, session.id, trade.asset))]
         /\ IF d.status = "skipped" \/ dryRunEnabled(session)
            THEN /\ log' = IF d.status = "skipped"
                           THEN markTradeSkipped(log, trade, d.errorMessage)
                           ELSE saveTradeRecord(log, record)
                 /\ AfterSave(saveTradeRecordThrows(log, record),
                              trade.transactionHash)
                 /\ UNCHANGED orders
            ELSE /\ pending' = [kind |-> "buy", trade |-> trade,
                                tradeAmount |-> d.amount,
                                executedSize |-> estimatedShares]
                 /\ orders' = [orders EXCEPT ![trade.transactionHash] = @ + 1]
                 /\ pc' = "awaitBuyOrder"
                 /\ UNCHANGED << log, applied, idx, newTrades, ledgerThrew >>
  /\ UNCHANGED << insertFails, shown >>
  /\ UNCHANGED << session, configs, isRunning, lastProcessedTimestamp,
                  pollCount, positionCache, held, lagged, summaries, lastSell,
                  recon >>

\* placeMarketOrder returns or throws for a buy: lines 234-266.  A ledger
\* error thrown by the save inside the try is caught at line 252, and the
\* save of the FAILED record in the catch throws it again.
BuyOrderReturn ==
  /\ pc = "awaitBuyOrder"
  /\ \E result \in OrderResults :
       LET trade == pending.trade
           newBudget == remainingBudget - pending.tradeAmount
           record == IF result = "success"
                     THEN ExecutedTrade(trade, pending.executedSize, "SUCCESS",
                                        "order", "none")
                     ELSE ExecutedTrade(trade, pending.executedSize, "FAILED",
                            "none",
                            IF result = "rejected"
                            THEN "No order ID returned from API" ELSE result)
       IN  /\ configs' = IF buyDebited(result)
                         THEN updateBudget(configs, session.id, newBudget)
                         ELSE configs
           /\ CASE result = "success" ->
                    /\ remainingBudget' = newBudget
                    /\ held' = [held EXCEPT ![trade.asset] = @ + pending.executedSize]
                    /\ lagged' = [lagged EXCEPT ![trade.asset] = held[trade.asset]]
                    /\ UNCHANGED isRunning
                [] result = "not enough balance" ->
                    /\ isRunning' = FALSE
                    /\ UNCHANGED << remainingBudget, held, lagged >>
                [] OTHER ->
                    UNCHANGED << remainingBudget, held, lagged, isRunning >>
           /\ IF result = "not enough balance"
              THEN /\ pending' = NoOrder
                   /\ idx' = idx + 1
                   /\ pc' = "trade"
                   /\ UNCHANGED << log, applied, newTrades, ledgerThrew >>
              ELSE /\ log' = saveTradeRecord(log, record)
                   /\ AfterSave(saveTradeRecordThrows(log, record),
                                trade.transactionHash)
           /\ lastBuy' = [lastBuy EXCEPT
                             !.result = result,
                             !.after = configs'[session.id].remainingBudget]
  /\ UNCHANGED << insertFails, shown >>
  /\ UNCHANGED << session, lastProcessedTimestamp, pollCount, positionCache,
                  summaries, orders, lastSell, recon >>

\* processSellTrade up to the await of getPositionSize (or to its return,
\* when the session holds nothing of the asset).
ProcessSell ==
  /\ pc = "trade"
  /\ idx <= Len(newTrades)
  /\ CurrentTrade.side = "SELL"
  /\ remainingBudget' = FreshBudget
  /\ IF getSessionPosition(log, session.id, CurrentTrade.asset) <= 0
     THEN /\ log' = markTradeSkipped(log, CurrentTrade, "No position in session")
          /\ AfterSave(saveTradeRecordThrows(log,
                          ExecutedTrade(CurrentTrade, 0, "SKIPPED", "none",
                                        "No position in session")),
                       CurrentTrade.transactionHash)
     ELSE /\ pending' = [kind |-> "position", trade |-> CurrentTrade]
          /\ pc' = "awaitPosition"
          /\ UNCHANGED << log, applied, idx, newTrades, ledgerThrew >>
  /\ UNCHANGED << insertFails, shown >>
  /\ UNCHANGED << session, configs, isRunning, lastProcessedTimestamp,
                  pollCount, positionCache, held, lagged, summaries, orders,
                  lastBuy, lastSell, recon >>

\* getPositionSize throws: the exception leaves the batch and is caught by
\* the poll's catch; the watermark is not advanced.
PositionThrows ==
  /\ pc = "awaitPosition"
  /\ pending' = NoOrder
  /\ newTrades' = << >>
  /\ idx' = 1
  /\ pc' = "sleeping"
  /\ UNCHANGED << insertFails, ledgerThrew, shown >>
  /\ UNCHANGED << session, configs, log, remainingBudget, isRunning,
                  lastProcessedTimestamp, pollCount, positionCache, held,
                  lagged, summaries, orders, applied, lastBuy, lastSell, recon >>

\* getPositionSize returns: reconcile, size the sell, up to the await of
\* placeMarketOrder (or to the return, for a skip and for a dry run).
PositionReturn ==
  /\ pc = "awaitPosition"
  /\ \E apiShares \in PositionReads(pending.trade.asset) :
       LET trade == pending.trade
           actualShares == reconcile(apiShares, positionCache, trade.asset)
           ourSellValue == sellValue(trade, session.copyPercentage, actualShares)
           sharesToSell == sharesToSellFor(trade, session.copyPercentage, actualShares)
           status == IF actualShares <= 0 THEN "skipped"
                     ELSE IF dryRunEnabled(session) THEN "dry-run" ELSE "submitted"
           record == IF status = "skipped"
                     THEN ExecutedTrade(trade, 0, "SKIPPED", "none",
                                        "No actual position")
                     ELSE ExecutedTrade(trade, sharesToSell, "SUCCESS",
                                        "dry-run", "none")
       IN  /\ positionCache' = (trade.asset :> actualShares) @@ positionCache
           /\ recon' = (trade.asset :> actualShares) @@ recon
           /\ lastSell' = [kind |-> "sell", trade |-> trade,
                           apiShares |-> apiShares,
                           actualShares |-> actualShares,
                           sharesToSell |-> IF status = "skipped" THEN 0
                                            ELSE sharesToSell,
                           status |-> status,
                           held |-> held[trade.asset]]
           /\ IF status = "submitted"
              THEN /\ pending' = [kind |-> "sell", trade |-> trade,
                                  actualShares |-> actualShares,
                                  sharesToSell |-> sharesToSell]
                   /\ orders' = [orders EXCEPT ![trade.transactionHash] = @ + 1]
                   /\ pc' = "awaitSellOrder"
                   /\ UNCHANGED << log, applied, idx, newTrades, ledgerThrew >>
              ELSE /\ log' = IF status = "skipped"
                             THEN markTradeSkipped(log, trade, "No actual position")
                             ELSE saveTradeRecord(log, record)
                   /\ AfterSave(saveTradeRecordThrows(log, record),
                                trade.transactionHash)
                   /\ UNCHANGED orders
  /\ UNCHANGED << insertFails, shown >>
  /\ UNCHANGED << session, configs, remainingBudget, isRunning,
                  lastProcessedTimestamp, pollCount, held, lagged, summaries,
                  lastBuy >>

\* placeMarketOrder returns or throws for a sell: lines 344-375.  The venue
\* fills a sell only out of shares the account holds.  A ledger error thrown
\* by the save inside the try is caught at line 369, and the save of the
\* FAILED record in the catch throws it again.
SellOrderReturn ==
  /\ pc = "awaitSellOrder"
  /\ \E result \in OrderResults :
       LET trade == pending.trade
           proceeds == pending.sharesToSell * trade.price
           newBudget == remainingBudget + proceeds
           record == IF result = "success"
                     THEN ExecutedTrade(trade, pending.sharesToSell, "SUCCESS",
                                        "order", "none")
                     ELSE ExecutedTrade(trade, pending.sharesToSell, "FAILED",
                            "none",
                            IF result = "rejected"
                            THEN "No order ID returned from API" ELSE result)
       IN  /\ IF result = "success"
              THEN /\ pending.sharesToSell <= held[trade.asset]
                   /\ positionCache' = (trade.asset :>
                          cacheAfterSell(pending.actualShares, pending.sharesToSell))
                          @@ positionCache
                   /\ IF reinvestEnabled(session)
                      THEN /\ configs' = updateBudget(configs, session.id, newBudget)
                           /\ remainingBudget' = newBudget
                      ELSE UNCHANGED << configs, remainingBudget >>
                   /\ held' = [held EXCEPT ![trade.asset] = @ - pending.sharesToSell]
                   /\ lagged' = [lagged EXCEPT ![trade.asset] = held[trade.asset]]
              ELSE UNCHANGED << configs, remainingBudget, positionCache, held, lagged >>
           /\ log' = saveTradeRecord(log, record)
           /\ AfterSave(saveTradeRecordThrows(log, record), trade.transactionHash)
  /\ UNCHANGED << insertFails, shown >>
  /\ UNCHANGED << session, isRunning, lastProcessedTimestamp, pollCount,
                  summaries, orders, lastBuy, lastSell, recon >>

\* After the last trade of the batch: the watermark moves to the latest
\* timestamp of the batch, then the loop sleeps.
FinishBatch ==
  /\ pc = "trade"
  /\ idx > Len(newTrades)
  /\ lastProcessedTimestamp' = latestTimestamp(newTrades)
  /\ newTrades' = << >>
  /\ idx' = 1
  /\ pc' = "sleeping"
  /\ UNCHANGED << insertFails, ledgerThrew, shown >>
  /\ UNCHANGED << session, configs, log, remainingBudget, isRunning, pollCount,
                  positionCache, pending, held, lagged, summaries, orders,
                  applied, lastBuy, lastSell, recon >>

\* sleep(pollInterval) resolves.
Wake ==
  /\ pc = "sleeping"
  /\ pc' = "loop"
  /\ UNCHANGED << insertFails, ledgerThrew, shown >>
  /\ UNCHANGED << session, configs, log, remainingBudget, isRunning,
                  lastProcessedTimestamp, pollCount, positionCache, newTrades,
                  idx, pending, held, lagged, summaries, orders, applied,
                  lastBuy, lastSell, recon >>

\* The SIGINT handler: isRunning = false, deactivateConfig, showExitSummary,
\* process.exit(0).  It runs while start() is suspended on an await.
Sigint ==
  /\ pc \in AwaitPoints
  /\ isRunning' = FALSE
  /\ configs' = deactivateConfig(configs, session.id)
  /\ summaries' = summaries + 1
  /\ shown' = showExitSummary(log, configs', session.id)
  /\ pc' = "exited"
  /\ UNCHANGED << insertFails, ledgerThrew >>
  /\ UNCHANGED << session, log, remainingBudget, lastProcessedTimestamp,
                  pollCount, positionCache, newTrades, idx, pending, held,
                  lagged, orders, applied, lastBuy, lastSell, recon >>

\* stop(), called while start() is suspended on an await.
Stop ==
  /\ pc \in AwaitPoints
  /\ isRunning
  /\ isRunning' = FALSE
  /\ UNCHANGED << insertFails, ledgerThrew, shown >>
  /\ UNCHANGED << session, configs, log, remainingBudget, lastProcessedTimestamp,
                  pollCount, positionCache, pc, newTrades, idx, pending, held,
                  lagged, summaries, orders, applied, lastBuy, lastSell, recon >>

Next ==
  \/ Start
  \/ PollBegin
  \/ ExitLoop
  \/ FetchReturn
  \/ ProcessBuy
  \/ BuyOrderReturn
  \/ ProcessSell
  \/ PositionThrows
  \/ PositionReturn
  \/ SellOrderReturn
  \/ FinishBatch
  \/ Wake
  \/ Sigint
  \/ Stop

Spec == Init /\ [][Next]_vars

\* ------------------------------------------- the ledger failing to write
\* The database starts to refuse INSERTs into executed_trades (stmt.run in
\* saveTrade throws an error that is not a UNIQUE violation), and later
\* accepts them again.  This happens between two steps of start().
LedgerFails ==
  /\ pc \notin {"created", "returned", "exited"}
  /\ ~insertFails
  /\ insertFails' = TRUE
  /\ UNCHANGED << ledgerThrew, shown >>
  /\ UNCHANGED << session, configs, log, remainingBudget, isRunning,
                  lastProcessedTimestamp, pollCount, positionCache, pc,
                  newTrades, idx, pending, held, lagged, summaries, orders,
                  applied, lastBuy, lastSell, recon >>

LedgerRecovers ==
  /\ pc \notin {"created", "returned", "exited"}
  /\ insertFails
  /\ insertFails' = FALSE
  /\ UNCHANGED << ledgerThrew, shown >>
  /\ UNCHANGED << session, configs, log, remainingBudget, isRunning,
                  lastProcessedTimestamp, pollCount, positionCache, pc,
                  newTrades, idx, pending, held, lagged, summaries, orders,
                  applied, lastBuy, lastSell, recon >>

NextLedger ==
  \/ Next
  \/ LedgerFails
  \/ LedgerRecovers

LedgerSpec == Init /\ [][NextLedger]_vars

\* ------------------------------------------- two sessions on one ledger
\* A second copytrade process with its own config (the next row of
\* copytrade_configs) uses the same database file.  Its target's feed gives a
\* transactionHash that the feed of this session gives too, and it records
\* its outcome for it while start() of this session is under way.
OtherConfigId == 2

\* The rows of executed_trades that one config wrote.
RowsOfConfig(rows, configId) ==
  SelectSeq(rows, LAMBDA r : r.configId = configId)

OtherSessionSaves ==
  /\ pc \notin {"created", "returned", "exited"}
  /\ Len(RowsOfConfig(log, OtherConfigId)) < MaxOtherRows
  /\ \E t \in Pool, status \in {"SUCCESS", "SKIPPED"} :
       LET row == [ configId |-> OtherConfigId,
                    originalTradeId |-> t.transactionHash,
                    assetId |-> t.asset,
                    side |-> t.side,
                    originalSize |-> t.size,
                    executedSize |-> IF status = "SUCCESS" THEN t.size ELSE 0,
                    price |-> t.price,
                    status |-> status,
                    orderId |-> IF status = "SUCCESS" THEN "order" ELSE "none",
                    errorMessage |-> IF status = "SUCCESS" THEN "none"
                                     ELSE "No position in session" ]
       IN  /\ ~isTradeProcessed(log, t.transactionHash)
           /\ log' = saveTradeRecord(log, row)
  /\ configs' = IF Len(configs) < OtherConfigId
                THEN Append(configs, [remainingBudget |-> session.budget,
                                      budget |-> session.budget,
                                      isActive |-> TRUE])
                ELSE configs
  /\ UNCHANGED << insertFails, ledgerThrew, shown >>
  /\ UNCHANGED << session, remainingBudget, isRunning, lastProcessedTimestamp,
                  pollCount, positionCache, pc, newTrades, idx, pending, held,
                  lagged, summaries, orders, applied, lastBuy, lastSell,
                  recon >>

NextShared ==
  \/ Next
  \/ OtherSessionSaves

SharedLedgerSpec == Init /\ [][NextShared]_vars

\* ------------------------------------------------- the process is killed
\* The process dies (kill -9, power loss) while start() is under way: nothing
\* more runs, the database file keeps what was written so far.
Crash ==
  /\ pc \notin {"created", "returned", "exited", "crashed"}
  /\ pc' = "crashed"
  /\ UNCHANGED << insertFails, ledgerThrew, shown >>
  /\ UNCHANGED << session, configs, log, remainingBudget, isRunning,
                  lastProcessedTimestamp, pollCount, positionCache, newTrades,
                  idx, pending, held, lagged, summaries, orders, applied,
                  lastBuy, lastSell, recon >>

\* The process dies after the order was filled and updateBudget has run
\* (lines 240 and 356), before saveTradeRecord (lines 243 and 361): the two
\* are separate statements, each committed by itself.
CrashBeforeSave ==
  /\ \/ /\ pc = "awaitBuyOrder"
        /\ configs' = updateBudget(configs, session.id,
                                   remainingBudget - pending.tradeAmount)
        /\ held' = [held EXCEPT ![pending.trade.asset] = @ + pending.executedSize]
     \/ /\ pc = "awaitSellOrder"
        /\ reinvestEnabled(session)
        /\ pending.sharesToSell <= held[pending.trade.asset]
        /\ configs' = updateBudget(configs, session.id,
                        remainingBudget + pending.sharesToSell * pending.trade.price)
        /\ held' = [held EXCEPT ![pending.trade.asset] = @ - pending.sharesToSell]
  /\ lagged' = [lagged EXCEPT ![pending.trade.asset] = held[pending.trade.asset]]
  /\ pc' = "crashed"
  /\ UNCHANGED << insertFails, ledgerThrew, shown >>
  /\ UNCHANGED << session, log, remainingBudget, isRunning,
                  lastProcessedTimestamp, pollCount, positionCache, newTrades,
                  idx, pending, summaries, orders, applied, lastBuy, lastSell,
                  recon >>

NextCrash ==
  \/ Next
  \/ Crash
  \/ CrashBeforeSave

CrashSpec == Init /\ [][NextCrash]_vars

\* --------------------------------- an account that already holds shares
\* The account holds 8 shares of X that were bought outside the session, so
\* that getPositionSize answers more than zero also in a dry run.
PriorHoldings == [a \in Assets |-> IF a = "X" THEN 8 ELSE 0]

PriorInit ==
  /\ session \in { Session(400, 100, 80, FALSE, TRUE,  FALSE),
                   Session(10,  50,  80, TRUE,  TRUE,  TRUE),
                   Session(10,  50,  80, TRUE,  FALSE, TRUE) }
  /\ configs = << >>
  /\ log = << >>
  /\ remainingBudget = session.budget
  /\ isRunning = FALSE
  /\ lastProcessedTimestamp = StartTime
  /\ pollCount = 0
  /\ positionCache = EmptyMap
  /\ pc = "created"
  /\ newTrades = << >>
  /\ idx = 1
  /\ pending = NoOrder
  /\ held = PriorHoldings
  /\ lagged = PriorHoldings
  /\ summaries = 0
  /\ orders = [h \in TxIds |-> 0]
  /\ applied = {}
  /\ lastBuy = NoDecision
  /\ lastSell = NoDecision
  /\ recon = EmptyMap
  /\ insertFails = FALSE
  /\ ledgerThrew = FALSE
  /\ shown = NoSummary

PriorHoldingsSpec == PriorInit /\ [][Next]_vars

\* ------------------------------------------------- the ledger by itself
\* Rows of executed_trades as the sessions sharing the database leave them:
\* two buys of X at 0.25 and at 0.75, a sell of X and a sell of Y at 0.50, a
\* buy of Y at 0.50; of config 1 with any status, or a SUCCESS of config 2.
\* A SKIPPED row has executed_size 0, a FAILED row the size that was tried.
\* The weighted averages of these buy prices are whole numbers of quarters.
LedgerRow(id, side, assetId, size, price, configId, status) ==
  [ configId |-> configId,
    originalTradeId |-> id,
    assetId |-> assetId,
    side |-> side,
    originalSize |-> size,
    executedSize |-> IF status = "SKIPPED" THEN 0 ELSE size,
    price |-> price,
    status |-> status,
    orderId |-> IF status = "SUCCESS" THEN "order" ELSE "none",
    errorMessage |-> IF status = "SUCCESS" THEN "none" ELSE "Order failed" ]

LedgerRows ==
  UNION { { LedgerRow("r1", "BUY",  "X", 4, 1, w[1], w[2]),
            LedgerRow("r2", "BUY",  "X", 4, 3, w[1], w[2]),
            LedgerRow("r3", "SELL", "X", 4, 2, w[1], w[2]),
            LedgerRow("r4", "SELL", "Y", 4, 2, w[1], w[2]),
            LedgerRow("r5", "BUY",  "Y", 8, 2, w[1], w[2]) } :
          w \in { <<1, "SUCCESS">>, <<1, "FAILED">>, <<1, "SKIPPED">>,
                  <<2, "SUCCESS">> } }

RecordsInit ==
  /\ session = Session(400, 100, 80, TRUE, FALSE, FALSE)
  /\ configs = << [remainingBudget |-> 400, budget |-> 400, isActive |-> TRUE],
                  [remainingBudget |-> 400, budget |-> 400, isActive |-> TRUE] >>
  /\ log = << >>
  /\ remainingBudget = 400
  /\ isRunning = FALSE
  /\ lastProcessedTimestamp = StartTime
  /\ pollCount = 0
  /\ positionCache = EmptyMap
  /\ pc = "ledger"
  /\ newTrades = << >>
  /\ idx = 1
  /\ pending = NoOrder
  /\ held = [a \in Assets |-> 0]
  /\ lagged = [a \in Assets |-> 0]
  /\ summaries = 0
  /\ orders = [h \in TxIds |-> 0]
  /\ applied = {}
  /\ lastBuy = NoDecision
  /\ lastSell = NoDecision
  /\ recon = EmptyMap
  /\ insertFails = FALSE
  /\ ledgerThrew = FALSE
  /\ shown = NoSummary

\* saveTradeRecord of any row, while the log has fewer than MaxRows rows.
SaveAnyTrade ==
  /\ pc = "ledger"
  /\ Len(log) < MaxRows
  /\ \E row \in LedgerRows : log' = saveTradeRecord(log, row)
  /\ UNCHANGED << insertFails, ledgerThrew, shown >>
  /\ UNCHANGED << session, configs, remainingBudget, isRunning,
                  lastProcessedTimestamp, pollCount, positionCache, pc,
                  newTrades, idx, pending, held, lagged, summaries, orders,
                  applied, lastBuy, lastSell, recon >>

\* showExitSummary(configId) over the rows the ledger holds.
ShowSummary ==
  /\ pc = "ledger"
  /\ shown' = showExitSummary(log, configs, session.id)
  /\ UNCHANGED << insertFails, ledgerThrew >>
  /\ UNCHANGED << session, configs, log, remainingBudget, isRunning,
                  lastProcessedTimestamp, pollCount, positionCache, pc,
                  newTrades, idx, pending, held, lagged, summaries, orders,
                  applied, lastBuy, lastSell, recon >>

RecordsNext ==
  \/ SaveAnyTrade
  \/ ShowSummary

RecordsSpec == RecordsInit /\ [][RecordsNext]_vars

\* ------------------------------------------------------ a long session
\* A session that outlasts the summary's LIMIT: it records one outcome after
\* the other (a filled buy of X, a filled sell of X, a failed buy of Y, and
\* again) until the ledger holds one row more than getTradesByConfig
\* returns; at any moment it may end and show its summary.
MaxLongLog == SummaryLimit + 1

LongLogRow(n) ==
  CASE n % 3 = 1 -> LedgerRow("h" \o ToString(n), "BUY",  "X", 4, 1, 1, "SUCCESS")
    [] n % 3 = 2 -> LedgerRow("h" \o ToString(n), "SELL", "X", 4, 2, 1, "SUCCESS")
    [] OTHER     -> LedgerRow("h" \o ToString(n), "BUY",  "Y", 8, 2, 1, "FAILED")

LongInit ==
  /\ session = Session(400, 100, 80, TRUE, FALSE, TRUE)
  /\ configs = << [remainingBudget |-> 400, budget |-> 400, isActive |-> TRUE] >>
  /\ log = << >>
  /\ remainingBudget = 400
  /\ isRunning = TRUE
  /\ lastProcessedTimestamp = StartTime
  /\ pollCount = 0
  /\ positionCache = EmptyMap
  /\ pc = "session"
  /\ newTrades = << >>
  /\ idx = 1
  /\ pending = NoOrder
  /\ held = [a \in Assets |-> 0]
  /\ lagged = [a \in Assets |-> 0]
  /\ summaries = 0
  /\ orders = [h \in TxIds |-> 0]
  /\ applied = {}
  /\ lastBuy = NoDecision
  /\ lastSell = NoDecision
  /\ recon = EmptyMap
  /\ insertFails = FALSE
  /\ ledgerThrew = FALSE
  /\ shown = NoSummary

\* saveTradeRecord of the session's next outcome.
SaveNextTrade ==
  /\ pc = "session"
  /\ Len(log) < MaxLongLog
  /\ log' = saveTradeRecord(log, LongLogRow(Len(log) + 1))
  /\ UNCHANGED << insertFails, ledgerThrew, shown >>
  /\ UNCHANGED << session, configs, remainingBudget, isRunning,
                  lastProcessedTimestamp, pollCount, positionCache, pc,
                  newTrades, idx, pending, held, lagged, summaries, orders,
                  applied, lastBuy, lastSell, recon >>

\* The session ends: showExitSummary(configId).
EndWithSummary ==
  /\ pc = "session"
  /\ isRunning' = FALSE
  /\ summaries' = summaries + 1
  /\ shown' = showExitSummary(log, configs, session.id)
  /\ pc' = "ended"
  /\ UNCHANGED << insertFails, ledgerThrew >>
  /\ UNCHANGED << session, configs, log, remainingBudget,
                  lastProcessedTimestamp, pollCount, positionCache, newTrades,
                  idx, pending, held, lagged, orders, applied, lastBuy,
                  lastSell, recon >>

LongNext ==
  \/ SaveNextTrade
  \/ EndWithSummary

LongLogSpec == LongInit /\ [][LongNext]_vars

\* ------------------------------------------------ the P&L by itself
\* calculateRealizedPnL applied, twice, to a list of SUCCESS rows of one
\* config: any list without repetition of at most MaxPnLRows of these rows.
\* A large buy of X at 0.25, a large sell of it at 0.75 whose gain is
\* 2^SignificandBits quarters, two sells of one share of X at 0.50; a buy of Y
\* at 0.25, one at 0.75 and a sell of Y at 0.50.
PnLRows ==
  { LedgerRow("p1", "BUY",  "X", 2^(SignificandBits - 1) + 2, 1, 1, "SUCCESS"),
    LedgerRow("p2", "SELL", "X", 2^(SignificandBits - 1),     3, 1, "SUCCESS"),
    LedgerRow("p3", "SELL", "X", 1, 2, 1, "SUCCESS"),
    LedgerRow("p4", "SELL", "X", 1, 2, 1, "SUCCESS"),
    LedgerRow("p5", "BUY",  "Y", 4, 1, 1, "SUCCESS"),
    LedgerRow("p6", "SELL", "Y", 4, 2, 1, "SUCCESS"),
    LedgerRow("p7", "BUY",  "Y", 4, 3, 1, "SUCCESS") }

PnLLists ==
  UNION { { rows \in [1..n -> PnLRows] :
              \A i, j \in 1..n : i # j => rows[i] # rows[j] } :
          n \in 0..MaxPnLRows }

PnLInit ==
  /\ session = Session(400, 100, 80, TRUE, FALSE, TRUE)
  /\ configs = << [remainingBudget |-> 400, budget |-> 400, isActive |-> TRUE] >>
  /\ log \in PnLLists
  /\ remainingBudget = 400
  /\ isRunning = FALSE
  /\ lastProcessedTimestamp = StartTime
  /\ pollCount = 0
  /\ positionCache = EmptyMap
  /\ pc = "pnl"
  /\ newTrades = << >>
  /\ idx = 1
  /\ pending = NoOrder
  /\ held = [a \in Assets |-> 0]
  /\ lagged = [a \in Assets |-> 0]
  /\ summaries = 0
  /\ orders = [h \in TxIds |-> 0]
  /\ applied = {}
  /\ lastBuy = NoDecision
  /\ lastSell = NoDecision
  /\ recon = EmptyMap
  /\ insertFails = FALSE
  /\ ledgerThrew = FALSE
  /\ shown = [kind |-> "pnl", runs |-> << >>]

\* calculateRealizedPnL(trades) is called on the list; its result is kept.
ComputePnL ==
  /\ pc = "pnl"
  /\ Len(shown.runs) < 2
  /\ shown' = [shown EXCEPT !.runs = Append(@, calculateRealizedPnL(log))]
  /\ UNCHANGED << insertFails, ledgerThrew >>
  /\ UNCHANGED << session, configs, log, remainingBudget, isRunning,
                  lastProcessedTimestamp, pollCount, positionCache, pc,
                  newTrades, idx, pending, held, lagged, summaries, orders,
                  applied, lastBuy, lastSell, recon >>

PnLSpec == PnLInit /\ [][ComputePnL]_vars

\* ------------------------------------------------ the loop with no signal
\* The loop head when the polls are not counted: pollCount is only printed,
\* so it is kept at MaxPolls once it has got there.
PollUncounted ==
  /\ pc = "loop"
  /\ isRunning
  /\ pollCount' = Min(pollCount + 1, MaxPolls)
  /\ positionCache' = EmptyMap
  /\ recon' = EmptyMap
  /\ pc' = "fetching"
  /\ UNCHANGED << insertFails, ledgerThrew, shown >>
  /\ UNCHANGED << session, configs, log, remainingBudget, isRunning,
                  lastProcessedTimestamp, newTrades, idx, pending, held,
                  lagged, summaries, orders, applied, lastBuy, lastSell >>

\* start() when no SIGINT arrives and nobody calls stop().
NextNoSignal ==
  \/ Start
  \/ PollUncounted
  \/ ExitLoop
  \/ FetchReturn
  \/ ProcessBuy
  \/ BuyOrderReturn
  \/ ProcessSell
  \/ PositionThrows
  \/ PositionReturn
  \/ SellOrderReturn
  \/ FinishBatch
  \/ Wake

\* Every await of start() resolves and the event loop runs the continuation:
\* start() always takes its next step.
NoSignalSpec == Init /\ [][NextNoSignal]_vars /\ WF_vars(NextNoSignal)

\* ===================================================================
\* Properties
\* ===================================================================
RecordsOf(rows, originalTradeId) ==
  { i \in 1..Len(rows) : rows[i].originalTradeId = originalTradeId }

NoOrderInFlight == pending.kind \notin {"buy", "sell"}

\* C1: every transactionHash has at most one outcome record in the ledger,
\* and every transactionHash whose handling reached the save of an outcome
\* has exactly one, however often the feed returned it.
C1_ExactlyOneRecord ==
  \A h \in TxIds :
    /\ Cardinality(RecordsOf(log, h)) <= 1
    /\ h \in applied => Cardinality(RecordsOf(log, h)) = 1

\* C1 witness: a trade was handled twice (two orders went out for it) and
\* the ledger holds one record of it.
C1_Witness ==
  \E h \in TxIds :
    /\ orders[h] >= 2
    /\ NoOrderInFlight
    /\ h \in applied
    /\ Cardinality(RecordsOf(log, h)) = 1

\* C2 (as claimed): placeMarketOrder is called at most once per
\* transactionHash.
C2_AtMostOneOrder == \A h \in TxIds : orders[h] <= 1

\* C3: the remaining budget, in memory and in the ledger, is never negative.
C3_BudgetNonNegative ==
  /\ remainingBudget >= 0
  /\ \A i \in 1..Len(configs) : configs[i].remainingBudget >= 0

\* C3 witness: a successful buy that was cut down to the remaining budget
\* has brought the stored budget to zero.
C3_Witness ==
  /\ Len(configs) = 1
  /\ configs[1].remainingBudget = 0
  /\ lastBuy.kind = "buy"
  /\ lastBuy.status = "accepted"
  /\ lastBuy.amount = lastBuy.before
  /\ lastBuy.amount < session.maxTradeSize
  /\ \E i \in 1..Len(log) : log[i].status = "SUCCESS" /\ log[i].orderId = "order"

ScenarioA ==
  /\ session.budget = 400
  /\ session.copyPercentage = 100
  /\ session.maxTradeSize = 80
  /\ lastBuy.kind = "buy"
  /\ lastBuy.trade.size * lastBuy.trade.price = 200
  /\ lastBuy.before = 400
  /\ ~lastBuy.positionCheck

\* C4: the amount of an accepted buy is the minimum of the copied notional,
\* the per-trade cap and the budget remaining before the trade; in Scenario A
\* (budget 100 USD, 100 percent, cap 20 USD, target buys 50 USD) it is 20 USD
\* and the executed buy leaves 80 USD.
C4_BuyAmountIsMin ==
  /\ (lastBuy.kind = "buy" /\ lastBuy.status = "accepted") =>
        lastBuy.amount =
          Min(Min((lastBuy.trade.size * lastBuy.trade.price
                     * session.copyPercentage) \div 100,
                  session.maxTradeSize),
              lastBuy.before)
  /\ ScenarioA => (lastBuy.status = "accepted" /\ lastBuy.amount = 80)
  /\ (ScenarioA /\ lastBuy.result = "success") => lastBuy.after = 320

\* C4 witness: Scenario A has run and its order was executed.
C4_Witness ==
  /\ ScenarioA
  /\ lastBuy.amount = 80
  /\ lastBuy.result = "success"
  /\ configs[1].remainingBudget = 320

\* C5: a sell that is submitted (or recorded, in a dry run) is for a share
\* count between 0 and the reconciled shares, which are at most the remote
\* read.
C5_SellWithinReconciled ==
  /\ (lastSell.kind = "sell" /\ lastSell.status \in {"submitted", "dry-run"}) =>
        /\ 0 <= lastSell.sharesToSell
        /\ lastSell.sharesToSell <= lastSell.actualShares
        /\ lastSell.actualShares <= lastSell.apiShares
  /\ pending.kind = "sell" =>
        /\ 0 <= pending.sharesToSell
        /\ pending.sharesToSell <= pending.actualShares

\* C5 witness: a sell was submitted whose proportional size exceeded the
\* reconciled shares and was clamped to them.
C5_Witness ==
  /\ lastSell.kind = "sell"
  /\ lastSell.status = "submitted"
  /\ lastSell.sharesToSell = lastSell.actualShares
  /\ (lastSell.trade.size * session.copyPercentage) \div 100 > lastSell.actualShares

\* C6: within one poll cycle the reconciled share count of an asset never
\* increases from one sell of that asset to the next (recon is emptied when
\* a poll begins).
C6_ReconciledNonIncreasing ==
  [][ \A a \in Assets :
        (a \in DOMAIN recon /\ a \in DOMAIN recon') => recon'[a] <= recon[a] ]_vars

\* C6 witness: a later sell of the cycle got a remote read above the cached
\* value and was reconciled to the cached value.
C6_Witness ==
  /\ lastSell.kind = "sell"
  /\ lastSell.trade.asset \in DOMAIN recon
  /\ lastSell.apiShares > lastSell.actualShares
  /\ recon[lastSell.trade.asset] = lastSell.actualShares

\* C7 (as claimed): no sell order is submitted for more shares than the
\* account holds at that moment.
C7_NoOverSell ==
  (lastSell.kind = "sell" /\ lastSell.status = "submitted") =>
     lastSell.sharesToSell <= lastSell.held

RECURSIVE Notional(_, _)
\* Sum of executedSize * price over the SUCCESS rows of one side.
Notional(rows, side) ==
  IF rows = << >> THEN 0
  ELSE (IF Head(rows).status = "SUCCESS" /\ Head(rows).side = side
        THEN Head(rows).executedSize * Head(rows).price ELSE 0)
       + Notional(Tail(rows), side)

Replay(rows) ==
  session.budget - Notional(rows, "BUY")
    + (IF session.reinvest THEN Notional(rows, "SELL") ELSE 0)

\* C8 (as claimed): between two trades the stored remaining budget equals
\* the replay of the outcome log, in every session, dry runs included.
C8_BudgetEqualsReplay ==
  (Len(configs) = 1 /\ NoOrderInFlight) =>
     configs[1].remainingBudget = Replay(log)

ScenarioB ==
  /\ lastBuy.kind = "buy"
  /\ 0 < lastBuy.before
  /\ lastBuy.before < MIN_ORDER_SIZE_USD

\* C9 (as claimed): with a remaining budget that is positive and below the
\* venue minimum, a buy is skipped with reason "no budget".
C9_ScenarioB_NoBudget ==
  ScenarioB => (lastBuy.status = "skipped" /\ lastBuy.skipReason = "no budget")

\* C9 (amended): with a remaining budget that is positive and below the
\* venue minimum, a buy is skipped with reason "below $1 minimum", or with
\* "already hold position" when the position check applies; no order goes out.
C9_ScenarioB_BelowMinimum ==
  ScenarioB =>
    /\ lastBuy.status = "skipped"
    /\ lastBuy.skipReason = IF lastBuy.positionCheck
                            THEN "already hold position"
                            ELSE "below $1 minimum"
    /\ pc # "awaitBuyOrder"

\* C9 witness: half a dollar is left and the buy was skipped as below the
\* minimum.
C9_Witness ==
  /\ ScenarioB
  /\ lastBuy.before = 2
  /\ lastBuy.skipReason = "below $1 minimum"
  /\ \E i \in 1..Len(log) :
       /\ log[i].originalTradeId = lastBuy.trade.transactionHash
       /\ log[i].status = "SKIPPED"
       /\ log[i].errorMessage = "Below $1 minimum"

\* C10 (as claimed): when the session has ended on SIGINT, no order is left
\* in flight: the outcome of every submitted order was recorded first.
C10_InFlightOrderFinished == pc = "exited" => NoOrderInFlight

BudgetExhausted == Len(configs) = 1 /\ configs[1].remainingBudget <= 0

\* C11 (as claimed): once the remaining budget is exhausted (not greater
\* than zero), start() eventually leaves the polling loop without any
\* signal, prints the exit summary and returns.
C11_ExhaustedLoopReturns ==
  BudgetExhausted ~> (pc = "returned" /\ shown.kind = "summary")

\* C12 (as claimed): when a session has ended, by SIGINT, by stop(), by the
\* fatal insufficient-balance error or otherwise, its config is inactive in
\* the ledger.
C12_EndedSessionInactive ==
  pc \in {"returned", "exited"} => ~configs[session.id].isActive

InsufficientBalanceSeen ==
  \/ lastBuy.kind = "buy" /\ lastBuy.result = "not enough balance"
  \/ \E i \in 1..Len(log) : log[i].errorMessage = "not enough balance"

\* C13 (as claimed): once placeMarketOrder has failed for insufficient
\* balance or allowance, for a buy or for a sell, the loop begins no further
\* poll.
C13_InsufficientBalanceStopsLoop ==
  [][ (InsufficientBalanceSeen /\ pc = "loop") => pc' # "fetching" ]_vars

\* C14 (as claimed): a network failure of placeMarketOrder leaves no outcome
\* record of the trade, so that the next poll selects the trade again.
C14_NetworkFailureLeavesNoRecord ==
  \A i \in 1..Len(log) : log[i].errorMessage # "network error"

\* C15 (as claimed): once saveTradeRecord has thrown a ledger error that is
\* not a duplicate key, the session is aborted: the loop begins no further
\* poll and no further order is submitted.
C15_LedgerErrorAbortsSession ==
  [][ ledgerThrew => /\ (pc = "loop" => pc' # "fetching")
                     /\ orders' = orders ]_vars

\* C16 (as claimed): swallowing a duplicate-key collision loses nothing:
\* between two trades of a live session the shares bought and sold at the
\* venue are the shares of the session's SUCCESS records, and the stored
\* budget is the one those records give.
C16_SwallowedCollisionLosesNothing ==
  (~session.dryRun /\ Len(configs) = 1 /\ NoOrderInFlight) =>
     /\ \A a \in Assets : held[a] = getSessionPosition(log, session.id, a)
     /\ configs[1].remainingBudget = Replay(log)

\* C17: a sell the venue has filled raises the stored remaining budget by
\* exactly sharesToSell * price when reinvest is enabled and leaves it as it
\* is when reinvest is disabled; a sell that was not filled never changes
\* it; with reinvest disabled the remaining budget, stored and in memory,
\* never increases.
C17_SellCreditsIffReinvest ==
  [][ /\ pc = "awaitSellOrder" =>
           LET filled == held'[pending.trade.asset] < held[pending.trade.asset]
               proceeds == pending.sharesToSell * pending.trade.price
           IN  configs'[session.id].remainingBudget =
                 configs[session.id].remainingBudget
                   + (IF filled /\ session.reinvest THEN proceeds ELSE 0)
      /\ (~session.reinvest /\ Len(configs) = 1) =>
           /\ configs'[session.id].remainingBudget
                <= configs[session.id].remainingBudget
           /\ remainingBudget' <= remainingBudget ]_vars

\* C17 witness: in a session with reinvest enabled a sell was filled and
\* recorded, and the stored budget is the original budget less the buys
\* plus the proceeds of the sells.
C17_Witness ==
  /\ session.reinvest
  /\ ~session.dryRun
  /\ Len(configs) = 1
  /\ lastSell.kind = "sell"
  /\ lastSell.status = "submitted"
  /\ NoOrderInFlight
  /\ \E i \in 1..Len(log) :
       /\ log[i].originalTradeId = lastSell.trade.transactionHash
       /\ log[i].status = "SUCCESS"
       /\ log[i].executedSize = lastSell.sharesToSell
  /\ Notional(log, "SELL") > 0
  /\ configs[1].remainingBudget =
       session.budget - Notional(log, "BUY") + Notional(log, "SELL")

\* C18: with allowAddToPosition false, a buy of an asset of which the
\* session holds more than zero shares is skipped as "already hold
\* position", no order goes out for it and the budget stays as it was; with
\* allowAddToPosition true, or when the session holds nothing of the asset,
\* the buy is never skipped for that reason: it is sized, and accepted or
\* skipped for its size.
C18_PositionCheck ==
  lastBuy.kind = "buy" =>
    /\ (~session.allowAddToPosition /\ lastBuy.sessionShares > 0) =>
          /\ lastBuy.status = "skipped"
          /\ lastBuy.skipReason = "already hold position"
          /\ lastBuy.amount = 0
          /\ lastBuy.result = "none"
          /\ lastBuy.after = lastBuy.before
          /\ pc # "awaitBuyOrder"
    /\ (session.allowAddToPosition \/ lastBuy.sessionShares <= 0) =>
          /\ lastBuy.skipReason \in
               {"none", "no budget", "amount too small", "below $1 minimum"}
          /\ lastBuy.status = "accepted" =>
               lastBuy.amount =
                 Min(Min(copyAmount(lastBuy.trade, session.copyPercentage),
                         session.maxTradeSize),
                     lastBuy.before)

\* C18 witness: the session had bought the asset, allowAddToPosition is
\* false, and a further buy of the asset was skipped with one order only
\* ever sent for it.
C18_Witness ==
  /\ ~session.allowAddToPosition
  /\ ~session.dryRun
  /\ lastBuy.kind = "buy"
  /\ lastBuy.sessionShares > 0
  /\ lastBuy.skipReason = "already hold position"
  /\ orders[lastBuy.trade.transactionHash] = 1
  /\ configs[1].remainingBudget = lastBuy.before

RECURSIVE SumFn(_)
\* The sum of the values of a function with a finite domain.
SumFn(f) ==
  IF DOMAIN f = {} THEN 0
  ELSE LET x == CHOOSE y \in DOMAIN f : TRUE
       IN  f[x] + SumFn([y \in DOMAIN f \ {x} |-> f[y]])

SuccessShares(rows, configId, assetId, side) ==
  SumFn([ i \in { j \in 1..Len(rows) :
                    /\ rows[j].configId = configId
                    /\ rows[j].assetId = assetId
                    /\ rows[j].status = "SUCCESS"
                    /\ rows[j].side = side } |-> rows[i].executedSize ])

\* C19: the session position of a config and an asset is the executedSize
\* of that config's SUCCESS buys of the asset less that of its SUCCESS
\* sells; FAILED and SKIPPED rows and rows of another config add nothing.
C19_SessionPositionFromSuccessRows ==
  \A c \in {1, 2} : \A a \in Assets :
    getSessionPosition(log, c, a) =
      SuccessShares(log, c, a, "BUY") - SuccessShares(log, c, a, "SELL")

\* C19 witness: the ledger holds a SUCCESS buy of X of config 1, a FAILED
\* row of X of config 1 with a size and a SUCCESS buy of X of config 2, and
\* the position of config 1 in X is the one buy.
C19_Witness ==
  /\ pc = "ledger"
  /\ \E i, j, k \in 1..Len(log) :
       /\ log[i].configId = 1 /\ log[i].assetId = "X"
       /\ log[i].status = "SUCCESS" /\ log[i].side = "BUY"
       /\ log[j].configId = 1 /\ log[j].assetId = "X"
       /\ log[j].status = "FAILED" /\ log[j].executedSize > 0
       /\ log[k].configId = 2 /\ log[k].assetId = "X"
       /\ log[k].status = "SUCCESS" /\ log[k].side = "BUY"
       /\ getSessionPosition(log, 1, "X") = log[i].executedSize

IndicesOf(rows, assetId, side) ==
  { i \in 1..Len(rows) : rows[i].assetId = assetId /\ rows[i].side = side }

WeightedAvgBuyPrice(rows, assetId) ==
  LET B == IndicesOf(rows, assetId, "BUY")
  IN  IF B = {} THEN 0
      ELSE SumFn([i \in B |-> rows[i].executedSize * rows[i].price])
             \div SumFn([i \in B |-> rows[i].executedSize])

\* C20: the realized P&L printed over a list of SUCCESS rows is the sum,
\* over the sells in it, of sellShares * sellPrice less sellShares times the
\* share-weighted average price of all the buys of the sell's asset, that
\* average being 0 when the asset has no buy.
C20_RealizedPnLIsWeightedAverage ==
  shown.kind = "summary" =>
    shown.realizedPnL =
      SumFn([ i \in { j \in 1..Len(shown.successful) :
                        shown.successful[j].side = "SELL" } |->
                LET sell == shown.successful[i]
                IN  sell.executedSize * sell.price
                      - sell.executedSize
                          * WeightedAvgBuyPrice(shown.successful, sell.assetId) ])

\* C20 witness: a summary over a buy of X at 0.25, a sell of X at 0.50 and a
\* sell of Y, of which nothing was bought: 4 shares each, 1 USD gained on X
\* and 2 USD on Y.
C20_Witness ==
  /\ pc = "ledger"
  /\ shown.kind = "summary"
  /\ Len(shown.successful) = 3
  /\ \E i, j, k \in 1..3 :
       /\ shown.successful[i].side = "BUY" /\ shown.successful[i].assetId = "X"
       /\ shown.successful[i].price = 1
       /\ shown.successful[j].side = "SELL" /\ shown.successful[j].assetId = "X"
       /\ shown.successful[k].side = "SELL" /\ shown.successful[k].assetId = "Y"
  /\ shown.realizedPnL = 12

AppendsDryRunSuccess(transactionHash) ==
  /\ Len(log') = Len(log) + 1
  /\ log'[Len(log')].originalTradeId = transactionHash
  /\ log'[Len(log')].status = "SUCCESS"
  /\ log'[Len(log')].orderId = "dry-run"

\* C21: in a dry run placeMarketOrder is never called, whatever the feed
\* returns: after every step no order is counted or awaited and the account
\* holds what it held before the session; every SUCCESS record has the order
\* id "dry-run"; and a step that accepts a buy or a sell of a trade that has
\* no record yet appends its record as SUCCESS with order id "dry-run".
C21_DryRunSubmitsNoOrder ==
  [][ session.dryRun =>
        /\ \A h \in TxIds : orders'[h] = 0
        /\ pending'.kind \notin {"buy", "sell"}
        /\ pc' \notin {"awaitBuyOrder", "awaitSellOrder"}
        /\ held' = PriorHoldings
        /\ \A i \in 1..Len(log') :
             log'[i].status = "SUCCESS" => log'[i].orderId = "dry-run"
        /\ ( /\ pc = "trade"
             /\ lastBuy' # lastBuy
             /\ lastBuy'.status = "accepted"
             /\ ~isTradeProcessed(log, lastBuy'.trade.transactionHash) ) =>
               AppendsDryRunSuccess(lastBuy'.trade.transactionHash)
        /\ ( /\ pc = "awaitPosition"
             /\ lastSell' # lastSell
             /\ lastSell'.status # "skipped"
             /\ ~isTradeProcessed(log, lastSell'.trade.transactionHash) ) =>
               /\ lastSell'.status = "dry-run"
               /\ AppendsDryRunSuccess(lastSell'.trade.transactionHash) ]_vars

\* C21 witness: a dry run has accepted a buy and a sell, both are recorded
\* as SUCCESS with order id "dry-run", and no order went out.
C21_Witness ==
  /\ session.dryRun
  /\ lastBuy.kind = "buy" /\ lastBuy.status = "accepted"
  /\ lastSell.kind = "sell" /\ lastSell.status = "dry-run"
  /\ \E i, j \in 1..Len(log) :
       /\ log[i].side = "BUY" /\ log[i].orderId = "dry-run"
       /\ log[j].side = "SELL" /\ log[j].orderId = "dry-run"
       /\ log[j].executedSize > 0
  /\ \A h \in TxIds : orders[h] = 0


\* C22: the session summary is shown exactly once per session, at its end:
\* no summary has been shown while the session runs, and exactly one has been
\* shown once start() has returned (after stop() or after the fatal
\* insufficient-balance error) or the SIGINT handler has ended the process.
C22_SummaryExactlyOnce ==
  /\ pc \in {"returned", "exited"} => summaries = 1 /\ shown # NoSummary
  /\ pc \notin {"returned", "exited"} => summaries = 0 /\ shown = NoSummary

\* C22 witness: start() has returned after the fatal insufficient-balance
\* error of a buy order and the summary has been shown once.
C22_Witness ==
  /\ pc = "returned"
  /\ lastBuy.kind = "buy" /\ lastBuy.result = "not enough balance"
  /\ summaries = 1
  /\ shown # NoSummary


\* C23 (as claimed): with a second session on the same ledger, the trades a
\* poll of this session selects as new are the ones its own records leave:
\* whatever feed comes back, the filter gives the batch it would give if
\* only the rows of this session's config were looked at.
C23_SessionsIndependent ==
  pc = "fetching" =>
    \A trades \in FeedSeqs :
      filterNew(trades, lastProcessedTimestamp, log)
        = filterNew(trades, lastProcessedTimestamp,
                    RowsOfConfig(log, session.id))


\* C24 (as claimed): wherever a live session is cut off by a crash, the
\* stored remaining budget is the budget minus the notional of the recorded
\* SUCCESS buys, plus the proceeds of the recorded SUCCESS sells when they
\* are reinvested.
C24_CrashLeavesBudgetConsistent ==
  (pc = "crashed" /\ ~session.dryRun) =>
     configs[session.id].remainingBudget = Replay(log)


\* C25 (as claimed): the running flag is looked at between the trades of a
\* batch: when the next trade of the batch is due and the flag has been
\* cleared (by stop() or by the fatal insufficient-balance error), the trade
\* is not decided: no order is submitted, no decision is taken and nothing
\* is recorded.
C25_FlagObservedBetweenTrades ==
  [][ (pc = "trade" /\ idx <= Len(newTrades) /\ ~isRunning) =>
        /\ orders' = orders
        /\ lastBuy' = lastBuy
        /\ lastSell' = lastSell
        /\ log' = log ]_vars


\* C26 (as claimed): whatever order the feed returns the trades in, the
\* batch is gone through in ascending timestamp order: a trade that comes
\* later in the batch has no earlier timestamp.
C26_BatchInTimestampOrder ==
  \A i, j \in 1..Len(newTrades) :
    i < j => newTrades[i].timestamp <= newTrades[j].timestamp


\* C27 (as claimed): when a poll cycle ends (the loop goes to sleep), every
\* trade of the cycle's batch has exactly one outcome record, or it has none
\* and its timestamp is still above the watermark, so that the next cycle
\* selects it as new again.
C27_NoTradeLeftAmbiguous ==
  [][ (pc # "sleeping" /\ pc' = "sleeping") =>
        \A i \in 1..Len(newTrades) :
          LET t == newTrades[i]
          IN  \/ Cardinality(RecordsOf(log', t.transactionHash)) = 1
              \/ /\ ~isTradeProcessed(log', t.transactionHash)
                 /\ t.timestamp > lastProcessedTimestamp' ]_vars


\* C28: when getPositionSize has returned for a sell, the reconciled shares
\* are the remote read if no sell of this poll cycle has referred to the
\* asset yet, and the smaller of the remote read and the cached value if one
\* has; with a remote read of 100 and a cached 60 they are 60 (Scenario D).
C28_ReconcileFirstAndLater ==
  [][ (pc = "awaitPosition" /\ pc' \in {"trade", "awaitSellOrder"}) =>
        LET a == pending.trade.asset
        IN  /\ lastSell'.trade = pending.trade
            /\ lastSell'.apiShares \in PositionReads(a)
            /\ a \notin DOMAIN recon =>
                 lastSell'.actualShares = lastSell'.apiShares
            /\ a \in DOMAIN recon =>
                 /\ a \in DOMAIN positionCache
                 /\ lastSell'.actualShares =
                      Min(lastSell'.apiShares, positionCache[a])
            /\ positionCache'[a] = lastSell'.actualShares
            /\ reconcile(100, ("X" :> 60), "X") = 60
            /\ reconcile(100, EmptyMap, "X") = 100 ]_vars

\* C28 witness: after a filled sell of the asset in this cycle, a later sell
\* of it got a remote read above the cached value, was reconciled to the
\* cached value and its order is awaited.
C28_Witness ==
  /\ pc = "awaitSellOrder"
  /\ lastSell.kind = "sell"
  /\ lastSell.status = "submitted"
  /\ lastSell.apiShares > lastSell.actualShares
  /\ positionCache[lastSell.trade.asset] = lastSell.actualShares
  /\ \E i \in 1..Len(log) :
       /\ log[i].side = "SELL"
       /\ log[i].assetId = lastSell.trade.asset
       /\ log[i].status = "SUCCESS"
       /\ log[i].originalTradeId # lastSell.trade.transactionHash


\* C29: when placeMarketOrder has returned or thrown for a sell: if the sell
\* was filled, the cache entry of the asset is max(0, reconciled shares -
\* sold shares) and no other entry changes; if it was rejected or threw, the
\* cache is left as it is, with the reconciled shares for the asset, and
\* neither the remaining budget (stored and in memory) nor the Session
\* Position of any asset changes.
C29_CacheAfterSell ==
  [][ (pc = "awaitSellOrder" /\ pc' = "trade") =>
        LET a == pending.trade.asset
            filled == held'[a] < held[a]
        IN  /\ positionCache[a] = pending.actualShares
            /\ filled =>
                 /\ positionCache'[a] =
                      Max(0, pending.actualShares - pending.sharesToSell)
                 /\ \A b \in DOMAIN positionCache' \ {a} :
                      b \in DOMAIN positionCache
                        /\ positionCache'[b] = positionCache[b]
            /\ ~filled =>
                 /\ positionCache' = positionCache
                 /\ configs' = configs
                 /\ remainingBudget' = remainingBudget
                 /\ \A b \in Assets :
                      getSessionPosition(log', session.id, b)
                        = getSessionPosition(log, session.id, b) ]_vars

\* C29 witness: a sell was filled and recorded, and the cache entry of its
\* asset is the reconciled shares less the shares sold.
C29_Witness ==
  /\ pc = "trade"
  /\ lastSell.kind = "sell"
  /\ lastSell.status = "submitted"
  /\ lastSell.sharesToSell > 0
  /\ lastSell.trade.asset \in DOMAIN positionCache
  /\ positionCache[lastSell.trade.asset] =
       lastSell.actualShares - lastSell.sharesToSell
  /\ \E i \in 1..Len(log) :
       /\ log[i].originalTradeId = lastSell.trade.transactionHash
       /\ log[i].status = "SUCCESS"
       /\ log[i].executedSize = lastSell.sharesToSell


MaxTimestampOf(trades) ==
  CHOOSE m \in { trades[i].timestamp : i \in 1..Len(trades) } :
    \A i \in 1..Len(trades) : trades[i].timestamp <= m

\* C31: the watermark never decreases; the step that ends a cycle whose
\* non-empty batch was gone through to its end sets it to the greatest
\* timestamp of that batch, which is above the old watermark; a cycle with
\* no new trades, a cycle aborted by an exception and every other step
\* leave it as it is.
C31_WatermarkMonotone ==
  [][ /\ lastProcessedTimestamp' >= lastProcessedTimestamp
      /\ IF pc = "trade" /\ idx > Len(newTrades) /\ pc' = "sleeping"
         THEN /\ Len(newTrades) > 0
              /\ lastProcessedTimestamp' = MaxTimestampOf(newTrades)
              /\ lastProcessedTimestamp' > lastProcessedTimestamp
         ELSE lastProcessedTimestamp' = lastProcessedTimestamp ]_vars

\* C31 witness: the first cycle went through a batch in which the sell with
\* timestamp 2 came before the buy with timestamp 1, and the watermark is 2.
C31_Witness ==
  /\ pc = "sleeping"
  /\ pollCount = 1
  /\ lastProcessedTimestamp = 2
  /\ \E i, j \in 1..Len(log) :
       /\ i < j
       /\ log[i].originalTradeId = "tx2"
       /\ log[j].originalTradeId = "tx1"


\* The trades a list holds.
TradesIn(trades) == { trades[i] : i \in 1..Len(trades) }

\* C32: when a cycle is aborted by an exception (getPositionSize throws),
\* the ledger and the watermark stay as they are until the next fetch
\* returns, and of the trades of the aborted batch the filter of the next
\* fetch selects, when the feed returns them, exactly those that have no
\* outcome record.  A batch never holds a trade that had a record when it
\* was fetched, so no trade recorded before the abort is decided or ordered
\* again: an order is submitted only for the current trade of the batch.
C32_AbortedBatchReselected ==
  [][ /\ (pc = "awaitPosition" /\ pc' = "sleeping") =>
           /\ log' = log
           /\ lastProcessedTimestamp' = lastProcessedTimestamp
           /\ \A t \in TradesIn(newTrades) :
                filterNew(<< t >>, lastProcessedTimestamp', log') = << t >>
                  <=> ~isTradeProcessed(log', t.transactionHash)
      /\ pc \in {"sleeping", "loop", "fetching"} =>
           /\ log' = log
           /\ lastProcessedTimestamp' = lastProcessedTimestamp
      /\ pc = "fetching" =>
           \A t \in TradesIn(newTrades') :
             /\ ~isTradeProcessed(log, t.transactionHash)
             /\ t.timestamp > lastProcessedTimestamp
      /\ \A h \in TxIds :
           orders'[h] # orders[h] =>
             /\ idx <= Len(newTrades)
             /\ newTrades[idx].transactionHash = h
             /\ orders'[h] = orders[h] + 1 ]_vars

\* C32 witness: the first cycle recorded the buy tx1 and was aborted at the
\* sell tx2 (the watermark did not move); the second cycle has selected tx2
\* alone, and tx1 still has its one order.
C32_Witness ==
  /\ pc = "trade"
  /\ pollCount = 2
  /\ idx = 1
  /\ lastProcessedTimestamp = StartTime
  /\ Len(newTrades) = 1
  /\ newTrades[1].transactionHash = "tx2"
  /\ Cardinality(RecordsOf(log, "tx1")) = 1
  /\ orders["tx1"] = 1
  /\ ~isTradeProcessed(log, "tx2")


StoredBudget == configs[session.id].remainingBudget

\* C33: the stored remaining budget changes only when a buy order of a live
\* session was filled, by minus the trade amount, and when a sell order was
\* filled with reinvest on, by plus the proceeds.  A step that ends a trade
\* as skipped, as a dry run or as failed (the order rejected or the call
\* throwing) leaves the stored budget as it is and submits no order.
C33_BudgetChangedOnlyByDebitAndCredit ==
  [][ pc # "created" =>
        LET a == pending.trade.asset
            StoredBudgetAfter == configs'[session.id].remainingBudget
        IN  /\ StoredBudgetAfter # StoredBudget =>
                 \/ /\ pc = "awaitBuyOrder"
                    /\ ~session.dryRun
                    /\ held'[a] > held[a]
                    /\ StoredBudgetAfter = StoredBudget - pending.tradeAmount
                 \/ /\ pc = "awaitSellOrder"
                    /\ session.reinvest
                    /\ held'[a] < held[a]
                    /\ StoredBudgetAfter =
                         StoredBudget + pending.sharesToSell * pending.trade.price
            /\ ( /\ pc \in {"awaitBuyOrder", "awaitSellOrder"}
                 /\ pc' = "trade"
                 /\ held' = held ) =>
                   /\ StoredBudgetAfter = StoredBudget
                   /\ orders' = orders
            /\ (pc \in {"trade", "awaitPosition"} /\ pc' = "trade") =>
                   /\ StoredBudgetAfter = StoredBudget
                   /\ orders' = orders ]_vars

\* C33 witness: a buy order was rejected, its FAILED record is in the ledger,
\* one order went out for it and the stored budget is what it was before.
C33_Witness ==
  /\ pc = "trade"
  /\ lastBuy.kind = "buy"
  /\ lastBuy.result = "rejected"
  /\ lastBuy.after = lastBuy.before
  /\ StoredBudget = lastBuy.before
  /\ orders[lastBuy.trade.transactionHash] = 1
  /\ \E i \in 1..Len(log) :
       /\ log[i].originalTradeId = lastBuy.trade.transactionHash
       /\ log[i].status = "FAILED"


\* C34: a fetch that returns the empty list (getTradesForAddress has caught
\* its error) or no new trade ends the cycle with nothing changed: the
\* watermark, the stored and the in-memory budget, the ledger, the running
\* flag and the orders are as before and the loop goes to its sleep; so of
\* every trade a later fetch can return, the filter selects what it would
\* have selected in this cycle.
C34_FailedFetchChangesNothing ==
  [][ (pc = "fetching" /\ pc' = "sleeping") =>
        /\ lastProcessedTimestamp' = lastProcessedTimestamp
        /\ configs' = configs
        /\ remainingBudget' = remainingBudget
        /\ log' = log
        /\ isRunning' = isRunning
        /\ orders' = orders
        /\ newTrades' = << >>
        /\ \A t \in Pool :
             filterNew(<< t >>, lastProcessedTimestamp', log')
               = filterNew(<< t >>, lastProcessedTimestamp, log) ]_vars

\* C34 witness: the first fetch gave nothing (the ledger is empty and the
\* watermark is the start time), and the second cycle has selected a batch.
C34_Witness ==
  /\ pc = "trade"
  /\ pollCount = 2
  /\ idx = 1
  /\ Len(newTrades) > 0
  /\ lastProcessedTimestamp = StartTime
  /\ log = << >>
  /\ \A h \in TxIds : orders[h] = 0
  /\ isRunning


\* The rows of one config with a given status and side, all of them.
RowsWith(rows, configId, status, side) ==
  SelectSeq(rows, LAMBDA r : /\ r.configId = configId
                             /\ r.status = status
                             /\ r.side = side)

\* C35 (as claimed): the summary shown at the end of the session is over the
\* whole outcome log of the config, however long: its counts of successful
\* buys, successful sells and failures, its bought and sold notional and its
\* realized P&L are those of all the records of the config.
C35_SummaryCoversWholeLog ==
  pc = "ended" =>
    LET all == RowsOfConfig(log, session.id)
        buys == RowsWith(log, session.id, "SUCCESS", "BUY")
        sells == RowsWith(log, session.id, "SUCCESS", "SELL")
    IN  /\ shown.buys = Len(buys)
        /\ shown.sells = Len(sells)
        /\ shown.failed =
             Len(SelectSeq(all, LAMBDA r : r.status = "FAILED"))
        /\ shown.totalBought = SumValue(buys)
        /\ shown.totalSold = SumValue(sells)
        /\ shown.realizedPnL =
             calculateRealizedPnL(
               Reversed(SelectSeq(all, LAMBDA r : r.status = "SUCCESS")))


\* The orders in which a list of n rows can be listed.
Orderings(n) ==
  { f \in [1..n -> 1..n] : \A i, j \in 1..n : i # j => f[i] # f[j] }

Reordered(rows, f) == [i \in 1..Len(rows) |-> rows[f[i]]]

\* No sum or product over these rows reaches 2^SignificandBits, so that
\* none is rounded.
NothingRounded(rows) ==
  LET prices == { rows[i].price : i \in 1..Len(rows) }
      top == IF prices = {} THEN 0
             ELSE CHOOSE m \in prices : \A q \in prices : q <= m
  IN  2 * top * SumFn([i \in 1..Len(rows) |-> rows[i].executedSize])
        < 2^SignificandBits

C37_NoTradeDroppedByWatermark ==
  (pc = "fetching" /\ isRunning) =>
    \A t \in Pool :
      (t.timestamp > StartTime /\ ~isTradeProcessed(log, t.transactionHash)) =>
        \A trades \in FeedSeqs :
          t \in TradesIn(trades) =>
            t \in TradesIn(filterNew(trades, lastProcessedTimestamp, log))


\* C38 (as claimed): the net shares of the session in an asset, bought minus
\* sold over its SUCCESS records, are never negative.
C38_SessionPositionNeverNegative ==
  \A a \in Assets : getSessionPosition(log, session.id, a) >= 0


\* C39 (as claimed): in a dry run the notional of the buys recorded as
\* SUCCESS, less the reinvested proceeds of the sells recorded as SUCCESS,
\* never exceeds the configured budget.
C39_DryRunWithinBudget ==
  session.dryRun =>
    Notional(log, "BUY")
      - (IF session.reinvest THEN Notional(log, "SELL") ELSE 0)
      <= session.budget


\* A record as it may stand in the outcome log: its status is final, and a
\* SKIPPED record has executed nothing and carries its reason.
TerminalRecord(row) ==
  /\ row.status \in {"SUCCESS", "FAILED", "SKIPPED"}
  /\ row.status = "SKIPPED" =>
       (row.executedSize = 0 /\ row.errorMessage # "none")

\* C40: every step leaves the records of the outcome log as they are and in
\* their places, adding records at the end at most, and every record of the
\* log has status SUCCESS, FAILED or SKIPPED, never PENDING, a SKIPPED record
\* having executedSize 0 and a reason.
C40_RecordsTerminalAndImmutable ==
  [][ /\ Len(log') >= Len(log)
      /\ \A i \in 1..Len(log) : log'[i] = log[i]
      /\ \A i \in 1..Len(log') : TerminalRecord(log'[i]) ]_vars

\* C40 witness: the log holds a SUCCESS, a FAILED and a SKIPPED record, the
\* SKIPPED one written first, and a later save of a trade that has a record
\* already was attempted: two orders went out for one trade, one record
\* stands.
C40_Witness ==
  /\ Len(log) = 3
  /\ log[1].status = "SKIPPED"
  /\ \E i, j \in 2..3 : log[i].status = "SUCCESS" /\ log[j].status = "FAILED"
  /\ \E h \in TxIds : orders[h] = 2

====
